---- MODULE Spec2Model ----
(***************************************************************************)
(* A model of packages/transformers/postcss/src/PostCSSTransformer.js:     *)
(* canReuseAST, parse, transform (the composes dependency scan, the plugin *)
(* run, the included-file registration, the companion JS asset) and the    *)
(* CSS-Modules loader's recursive fetch.                                   *)
(*                                                                         *)
(* Text is modelled as a sequence of symbols.  A symbol is one lexical     *)
(* unit of CSS source: a word, one quote character, one blank, one line    *)
(* break, one punctuation character.  The two regular expressions and the  *)
(* value parser are computed on these sequences the way the JavaScript     *)
(* regular expression engine and postcss-value-parser compute them on      *)
(* characters.                                                             *)
(***************************************************************************)
EXTENDS Integers, Sequences, FiniteSets, TLC

\* ------------------------------------------------------------------ text

IsNewline(s) == s = "nl"

\* \s of a JavaScript regular expression: blanks and line terminators.
IsSpace(s) == s \in {"sp", "nl"}

\* ("|') of the two regular expressions: either quote character.
IsQuote(s) == s \in {"dq", "sq"}

\* The number of characters a symbol stands for (String.prototype.length).
SymLen(s) ==
  CASE s = "composes" -> 8
    [] s = "content" -> 7
    [] s = "from" -> 4
    [] s \in {"foo", "bar"} -> 3
    [] s \in {"./a.css", "./b.css", "./c.css"} -> 7
    [] s = "main.css" -> 8
    [] s = ".js" -> 3
    [] OTHER -> 1

RECURSIVE CharLen(_)
CharLen(t) == IF t = <<>> THEN 0 ELSE SymLen(Head(t)) + CharLen(Tail(t))

\* No line terminator among t[a..b]: what `.` repeated can run over.
NoNewline(t, a, b) == \A k \in a..b : ~IsNewline(t[k])

SetMin(S) == CHOOSE x \in S : \A y \in S : x <= y
SetMax(S) == CHOOSE x \in S : \A y \in S : x >= y

\* Where `\s*` followed by a quote ends after position f: the first symbol
\* after f that is not white space, when that symbol is a quote; 0 otherwise.
OpenQuoteAfter(t, f) ==
  LET rest == {k \in (f + 1)..Len(t) : ~IsSpace(t[k])}
  IN IF rest = {} THEN 0
     ELSE IF IsQuote(t[SetMin(rest)]) THEN SetMin(rest) ELSE 0

\* The closing quotes `(.*)("|')` can stop at, for the opening quote at q.
CloseQuotes(t, q) ==
  {k \in (q + 1)..Len(t) : IsQuote(t[k]) /\ NoNewline(t, q + 1, k - 1)}

\* `from\s*("|').*("|')` matches with its `from` at position f.
FromClauseAt(t, f) ==
  /\ f \in 1..Len(t)
  /\ t[f] = "from"
  /\ OpenQuoteAfter(t, f) # 0
  /\ CloseQuotes(t, OpenQuoteAfter(t, f)) # {}

\* FROM_IMPORT_RE = /.+from\s*(?:"|')(.*)(?:"|')\s*;?/ : the positions a match
\* can start at with its `from` at f (`.+` is one symbol or more, none a line
\* break).
FromImportStarts(t, f) ==
  {i \in 1..(f - 1) : FromClauseAt(t, f) /\ NoNewline(t, i, f - 1)}

FromImportMatches(t) == \E f \in 1..Len(t) : FromImportStarts(t, f) # {}

\* FROM_IMPORT_RE.exec(value)[1]: the match starts at the leftmost position
\* some match starts at, the greedy `.+` runs to the last `from` it can, the
\* greedy `(.*)` to the last quote it can.  Meaningful when FromImportMatches.
FromImportPath(t) ==
  LET starts == UNION {FromImportStarts(t, f) : f \in 1..Len(t)}
      i0 == SetMin(starts)
      f0 == SetMax({f \in 1..Len(t) : i0 \in FromImportStarts(t, f)})
      q1 == OpenQuoteAfter(t, f0)
      q2 == SetMax(CloseQuotes(t, q1))
  IN SubSeq(t, q1 + 1, q2 - 1)

\* COMPOSES_RE = /composes:.+from\s*("|').*("|')\s*;?/ tested on the code.
ComposesReTest(t) ==
  \E c \in 1..Len(t) :
    /\ t[c] = "composes"
    /\ c + 1 <= Len(t)
    /\ t[c + 1] = ":"
    /\ \E f \in (c + 3)..Len(t) :
         FromClauseAt(t, f) /\ NoNewline(t, c + 2, f - 1)

\* postcss-value-parser: the number of nodes of type 'string' in a value.  A
\* string runs from a quote to the next quote of the same kind, or to the end
\* of the value when unclosed.
RECURSIVE StringTokensFrom(_, _)
StringTokensFrom(t, i) ==
  IF i > Len(t) THEN 0
  ELSE IF IsQuote(t[i])
       THEN LET close == {k \in (i + 1)..Len(t) : t[k] = t[i]}
            IN IF close = {} THEN 1
               ELSE 1 + StringTokensFrom(t, SetMin(close) + 1)
       ELSE StringTokensFrom(t, i + 1)

StringTokens(t) == StringTokensFrom(t, 1)

\* --------------------------------------------------------- the inputs

\* The file of the asset under transformation.
AssetFilePath == <<"main.css">>

\* Declarations of a style sheet: the property, raws.between (the colon with
\* the white space around it) and the value, as postcss keeps them.
Decl(prop, between, value) ==
  [prop |-> prop, between |-> between, value |-> value]

\* composes: foo from './a.css'
DeclFromA ==
  Decl("composes", <<":", "sp">>,
       <<"foo", "sp", "from", "sp", "sq", "./a.css", "sq">>)
\* composes : foo from "./a.css"      (a blank before the colon)
DeclSpacedColon ==
  Decl("composes", <<"sp", ":", "sp">>,
       <<"foo", "sp", "from", "sp", "dq", "./a.css", "dq">>)
\* composes: foo                      (the value continues on the next line)
\*     from "./b.css"
DeclMultiLine ==
  Decl("composes", <<":", "sp">>,
       <<"foo", "nl", "sp", "from", "sp", "dq", "./b.css", "dq">>)
\* composes: foo from "./a.css", bar from "./b.css"    (two string tokens)
DeclTwoStrings ==
  Decl("composes", <<":", "sp">>,
       <<"foo", "sp", "from", "sp", "dq", "./a.css", "dq", ",", "sp",
         "bar", "sp", "from", "sp", "dq", "./b.css", "dq">>)
\* composes: bar                      (a local composition)
DeclLocal == Decl("composes", <<":", "sp">>, <<"bar">>)
\* content: foo from './c.css'        (the shape, under another property)
DeclOtherProp ==
  Decl("content", <<":", "sp">>,
       <<"foo", "sp", "from", "sp", "sq", "./c.css", "sq">>)

DeclSet ==
  {DeclFromA, DeclSpacedColon, DeclMultiLine, DeclTwoStrings, DeclLocal,
   DeclOtherProp}

\* The most declarations a modelled style sheet holds.
MaxDecls == 2

Trees == UNION {[1..n -> DeclSet] : n \in 0..MaxDecls}

\* postcss.stringify of one rule holding the declarations: the text the
\* asset's code is when it is in sync with the tree.
DeclText(d) == <<"sp", "sp", d.prop>> \o d.between \o d.value \o <<";", "nl">>

RECURSIVE DeclsText(_)
DeclsText(tree) ==
  IF tree = <<>> THEN <<>> ELSE DeclText(Head(tree)) \o DeclsText(Tail(tree))

Render(tree) == <<"foo", "sp", "{", "nl">> \o DeclsText(tree) \o <<"}", "nl">>

\* decl.source.start of the k-th declaration: the position of the first
\* character of its property in the code, lines and columns counted from 1.
DeclOffset(tree, k) == 4 + Len(DeclsText(SubSeq(tree, 1, k - 1))) + 3

LineAt(text, idx) == 1 + Cardinality({j \in 1..(idx - 1) : IsNewline(text[j])})

ColumnAt(text, idx) ==
  LET nls == {j \in 1..(idx - 1) : IsNewline(text[j])}
      from == IF nls = {} THEN 1 ELSE SetMax(nls) + 1
  IN 1 + CharLen(SubSeq(text, from, idx - 1))

DeclSourceStart(tree, k) ==
  [line |-> LineAt(Render(tree), DeclOffset(tree, k)),
   column |-> ColumnAt(Render(tree), DeclOffset(tree, k))]

\* The position of the first character of the k-th declaration's value.
DeclValueStart(tree, k) ==
  [line |-> DeclSourceStart(tree, k).line,
   column |-> DeclSourceStart(tree, k).column
                + SymLen(tree[k].prop) + CharLen(tree[k].between)]

\* ASTs: the kind tag, the version and the tree.
Version(major, minor, patch, pre) ==
  [major |-> major, minor |-> minor, patch |-> patch, pre |-> pre]

Versions ==
  {Version(6, 1, 0, FALSE), Version(7, 0, 0, FALSE), Version(7, 0, 0, TRUE),
   Version(7, 1, 0, FALSE), Version(8, 0, 0, FALSE)}

NoAST == [type |-> "none", version |-> Version(0, 0, 0, FALSE)]

\* The ASTs an earlier stage of the pipeline can have left on the asset.
StoredASTs ==
  {[type |-> "postcss", version |-> v] : v \in Versions}
    \cup {[type |-> "less", version |-> Version(7, 0, 0, FALSE)]}

\* Export-token maps of CSS Modules: class name -> scoped name.
NoTokens == [k \in {} |-> ""]

TokenMaps == {NoTokens, ("x" :> "_x_1"), ("x" :> "_x_1") @@ ("y" :> "_y_1")}

\* asset.meta.cssModules: undefined, or a token map.
Undefined == [defined |-> FALSE, value |-> NoTokens]
Defined(m) == [defined |-> TRUE, value |-> m]

\* Dependencies the asset holds when transform is called, from earlier stages
\* of the pipeline: a URL dependency, a plain one.
Pos(line, column) == [line |-> line, column |-> column]

Dependency(spec, file, start, end, isURL) ==
  [moduleSpecifier |-> spec,
   loc |-> [filePath |-> file, start |-> start, end |-> end],
   isURL |-> isURL]

UrlDep == Dependency(<<"./c.css">>, AssetFilePath, Pos(1, 1), Pos(1, 8), TRUE)
EarlierDep == Dependency(<<"./c.css">>, AssetFilePath, Pos(1, 1), Pos(1, 8), FALSE)

InitialDependencies == {<<>>, <<UrlDep>>, <<UrlDep, EarlierDep>>}

\* Configurations: none for this asset, plugins only, plugins and CSS Modules.
Configs == {"none", "plugins", "modules"}

\* result.messages of a postcss run.
Message(type, file) == [type |-> type, file |-> file]

MessageLists ==
  {<<>>,
   <<Message("warning", <<"./b.css">>)>>,
   <<Message("dependency", <<"./b.css">>), Message("warning", <<"./c.css">>),
     Message("dependency", <<"./a.css">>)>>}

PluginErrors == {"CssSyntaxError", "PluginError"}

\* ------------------------------------------------------------ the state

VARIABLES
  pc,                   \* where the pipeline is with this asset
  config,               \* the configuration of this asset
  asset,                \* the asset under transformation
  pre,                  \* the asset as it was when transform was called
  reuse,                \* the last canReuseAST call: its argument, its result
  parsed,               \* what parse returned
  walked,               \* whether transform called walkDecls
  addDependencyCalls,   \* the arguments of transform's addDependency calls
  addIncludedFileCalls, \* the files of transform's addIncludedFile calls
  setASTCalls,          \* the arguments of transform's setAST calls
  messages,             \* the messages of the postcss run
  attempts,             \* how many times the plugin chain was executed
  result,               \* the assets transform returned
  error,                \* the error transform threw
  sources,              \* loader: the composes imports of each file on disk
  request,              \* loader: the arguments of the outermost fetch call
  stack,                \* loader: the fetch calls awaiting core.load
  fetched               \* loader: what the outermost fetch call returned

transformVars ==
  <<pc, config, asset, pre, reuse, parsed, walked, addDependencyCalls,
    addIncludedFileCalls, setASTCalls, messages, attempts, result, error>>

loaderVars == <<sources, request, stack, fetched>>

vars == <<transformVars, loaderVars>>

\* ---------------------------------------------------------- canReuseAST

\* semver's comparison of two versions: -1, 0 or 1.  A prerelease precedes
\* the release of the same major.minor.patch.
SemverCompare(a, b) ==
  IF a.major # b.major THEN (IF a.major < b.major THEN -1 ELSE 1)
  ELSE IF a.minor # b.minor THEN (IF a.minor < b.minor THEN -1 ELSE 1)
  ELSE IF a.patch # b.patch THEN (IF a.patch < b.patch THEN -1 ELSE 1)
  ELSE IF a.pre = b.pre THEN 0
  ELSE IF a.pre THEN -1 ELSE 1

\* semver.satisfies(version, '^7.0.0'): the range is >=7.0.0 <8.0.0, and a
\* prerelease version satisfies a range only through a comparator that is a
\* prerelease of the same major.minor.patch; this range has none.
SatisfiesCaret7(v) ==
  /\ SemverCompare(v, Version(7, 0, 0, FALSE)) >= 0
  /\ SemverCompare(v, Version(8, 0, 0, FALSE)) < 0
  /\ ~v.pre

\* canReuseAST comparing the tag alone.
canReuseAnyVersion(ast) == ast.type = "postcss"

canReuseAST(ast) == ast.type = "postcss" /\ SatisfiesCaret7(ast.version)

\* The AST tag parse returns and transform commits.
PostcssAST == [type |-> "postcss", version |-> Version(7, 0, 0, FALSE)]

\* parse: undefined without a configuration, else the tagged tree.
parse(cfg) == IF cfg = "none" THEN NoAST ELSE PostcssAST

\* ------------------------------------------------------------ transform

\* asset.getCode(), the text in sync with the tree.
GetCode(a) == Render(a.tree)

\* The fast path deciding on the code alone, dirty AST or not.
WalkIgnoringDirty(a) == ComposesReTest(GetCode(a))

\* Line 75-76: the declarations are walked unless the code is at hand (the
\* AST is not dirty) and COMPOSES_RE does not match it.
WalkPerformed(a) == a.astDirty \/ ComposesReTest(GetCode(a))

\* Lines 84-94: the dependency registered for one string token of the k-th
\* declaration.
ComposesDependency(tree, k) ==
  LET importPath == FromImportPath(tree[k].value)
      start == DeclSourceStart(tree, k)
  IN Dependency(importPath, importPath, start,
                Pos(start.line, start.column + CharLen(importPath)), FALSE)

Repeat(x, n) == [i \in 1..n |-> x]

\* One addDependency call per declaration, however many string tokens.
DeclDependenciesOncePerDecl(tree, k) ==
  IF tree[k].prop = "composes" /\ FromImportMatches(tree[k].value)
  THEN <<ComposesDependency(tree, k)>>
  ELSE <<>>

\* The walk not looking at the property of the declaration.
DeclDependenciesAnyProp(tree, k) ==
  IF FromImportMatches(tree[k].value)
  THEN Repeat(ComposesDependency(tree, k), StringTokens(tree[k].value))
  ELSE <<>>

\* Lines 78-97: the addDependency calls made for the k-th declaration.
DeclDependencies(tree, k) ==
  IF tree[k].prop = "composes" /\ FromImportMatches(tree[k].value)
  THEN Repeat(ComposesDependency(tree, k), StringTokens(tree[k].value))
  ELSE <<>>

\* Lines 77-98: the addDependency calls of walkDecls over decls 1..k.
RECURSIVE WalkDecls(_, _)
WalkDecls(tree, k) ==
  IF k = 0 THEN <<>> ELSE WalkDecls(tree, k - 1) \o DeclDependencies(tree, k)

\* Lines 76-99: the addDependency calls of the composes scan.
ScanDependencies(a) ==
  IF WalkPerformed(a) THEN WalkDecls(a.tree, Len(a.tree)) ELSE <<>>

\* The message loop not looking at the type of the message.
RECURSIVE IncludedFilesAnyType(_)
IncludedFilesAnyType(msgs) ==
  IF msgs = <<>> THEN <<>>
  ELSE <<Head(msgs).file>> \o IncludedFilesAnyType(Tail(msgs))

\* Lines 112-125: the files passed to addIncludedFile for the messages.
RECURSIVE IncludedFiles(_)
IncludedFiles(msgs) ==
  IF msgs = <<>> THEN <<>>
  ELSE (IF Head(msgs).type = "dependency" THEN <<Head(msgs).file>> ELSE <<>>)
         \o IncludedFiles(Tail(msgs))

\* The companion made for a non-empty token map only.
TruthyNonEmpty(m) == m.defined /\ m.value # [k \in {} |-> ""]

\* Line 128: `if (asset.meta.cssModules)`.  undefined is falsy; every object,
\* the empty one too, is truthy.
Truthy(m) == m.defined

\* One argument of the generated Object.assign call, or the right-hand side of
\* the direct assignment: a require of a module, or an object literal.
RequireArg(spec) == [kind |-> "require", spec |-> spec, value |-> NoTokens]
ObjectArg(m) == [kind |-> "object", spec |-> <<>>, value |-> m]

\* Line 130: asset.getDependencies().filter(dep => !dep.isURL).
NonUrl(dep) == ~dep.isURL
NonUrlDependencies(a) == SelectSeq(a.dependencies, NonUrl)

\* The merge with the local token map before the requires.
CompanionContentLocalFirst(tokens, deps) ==
  IF Len(deps) > 0
  THEN [form |-> "merge",
        args |-> <<ObjectArg(NoTokens), ObjectArg(tokens)>>
                   \o [i \in 1..Len(deps) |-> RequireArg(deps[i].moduleSpecifier)]]
  ELSE [form |-> "assign", args |-> <<ObjectArg(tokens)>>]

\* Lines 129-139: the code of the companion asset.
CompanionContent(tokens, deps) ==
  IF Len(deps) > 0
  THEN [form |-> "merge",
        args |-> <<ObjectArg(NoTokens)>>
                   \o [i \in 1..Len(deps) |-> RequireArg(deps[i].moduleSpecifier)]
                   \o <<ObjectArg(tokens)>>]
  ELSE [form |-> "assign", args |-> <<ObjectArg(tokens)>>]

\* The assets transform returns: the asset itself, the companion.
AssetOutput(a) ==
  [type |-> "css", filePath |-> a.filePath,
   content |-> [form |-> "asset", args |-> <<>>]]

CompanionAsset(a) ==
  [type |-> "js", filePath |-> a.filePath \o <<".js">>,
   content |-> CompanionContent(a.cssModules.value, NonUrlDependencies(a))]

\* Lines 127-147.
TransformOutputs(a) ==
  IF Truthy(a.cssModules) THEN <<AssetOutput(a), CompanionAsset(a)>>
  ELSE <<AssetOutput(a)>>

\* ------------------------------------------------------------- actions

\* The pipeline asks whether the AST an earlier stage left can be reused; if
\* not, the asset's code is materialised again and parsed.
CanReuseAST ==
  /\ pc = "start"
  /\ asset.ast.type # "none"
  /\ reuse' = [called |-> TRUE, ast |-> asset.ast,
               result |-> canReuseAST(asset.ast)]
  /\ IF canReuseAST(asset.ast)
     THEN pc' = "transform" /\ asset' = asset
     ELSE pc' = "parse" /\ asset' = [asset EXCEPT !.ast = NoAST, !.astDirty = FALSE]
  /\ UNCHANGED <<config, pre, parsed, walked, addDependencyCalls,
                 addIncludedFileCalls, setASTCalls, messages, attempts,
                 result, error, loaderVars>>

Parse ==
  /\ pc = "parse" \/ (pc = "start" /\ asset.ast.type = "none")
  /\ parsed' = parse(config)
  /\ asset' = IF parse(config) = NoAST THEN asset
              ELSE [asset EXCEPT !.ast = parse(config)]
  /\ pc' = "transform"
  /\ UNCHANGED <<config, pre, reuse, walked, addDependencyCalls,
                 addIncludedFileCalls, setASTCalls, messages, attempts,
                 result, error, loaderVars>>

\* Lines 50-72: without a configuration transform returns the asset alone.
TransformStart ==
  /\ pc = "transform"
  /\ pre' = asset
  /\ IF config = "none"
     THEN pc' = "done" /\ result' = <<AssetOutput(asset)>>
     ELSE pc' = "scan" /\ result' = result
  /\ UNCHANGED <<config, asset, reuse, parsed, walked, addDependencyCalls,
                 addIncludedFileCalls, setASTCalls, messages, attempts,
                 error, loaderVars>>

\* Lines 74-99: the composes scan.
Scan ==
  /\ pc = "scan"
  /\ walked' = WalkPerformed(asset)
  /\ addDependencyCalls' = ScanDependencies(asset)
  /\ asset' = [asset EXCEPT !.dependencies = @ \o ScanDependencies(asset)]
  /\ pc' = "process"
  /\ UNCHANGED <<config, pre, reuse, parsed, addIncludedFileCalls,
                 setASTCalls, messages, attempts, result, error, loaderVars>>

\* The asset after a successful plugin run (lines 102-125): getJSON of the
\* CSS-Modules plugin has stored the export tokens, the AST is committed, the
\* messages' files are registered.
Processed(a, cfg, msgs, tokens) ==
  [a EXCEPT !.cssModules = IF cfg = "modules" THEN Defined(tokens) ELSE @,
            !.ast = PostcssAST,
            !.astDirty = TRUE,
            !.includedFiles = @ \o IncludedFiles(msgs)]

\* Lines 102-147, the plugin chain succeeding.
ProcessOk ==
  /\ pc = "process"
  /\ \E msgs \in MessageLists, tokens \in TokenMaps :
       /\ asset' = Processed(asset, config, msgs, tokens)
       /\ messages' = msgs
       /\ addIncludedFileCalls' = IncludedFiles(msgs)
       /\ result' = TransformOutputs(Processed(asset, config, msgs, tokens))
  /\ setASTCalls' = Append(setASTCalls, PostcssAST)
  /\ attempts' = attempts + 1
  /\ pc' = "done"
  /\ UNCHANGED <<config, pre, reuse, parsed, walked, addDependencyCalls,
                 error, loaderVars>>

\* The plugin chain failing after the AST was committed.
ProcessFailAfterSetAST ==
  /\ pc = "process"
  /\ \E e \in PluginErrors : error' = e
  /\ attempts' = attempts + 1
  /\ setASTCalls' = Append(setASTCalls, PostcssAST)
  /\ asset' = [asset EXCEPT !.ast = PostcssAST, !.astDirty = TRUE]
  /\ pc' = "failed"
  /\ UNCHANGED <<config, pre, reuse, parsed, walked, addDependencyCalls,
                 addIncludedFileCalls, messages, result, loaderVars>>

\* Line 102, the plugin chain failing: the rejection leaves transform.
ProcessFail ==
  /\ pc = "process"
  /\ \E e \in PluginErrors : error' = e
  /\ attempts' = attempts + 1
  /\ pc' = "failed"
  /\ UNCHANGED <<config, asset, pre, reuse, parsed, walked,
                 addDependencyCalls, addIncludedFileCalls, setASTCalls,
                 messages, result, loaderVars>>

\* ------------------------------------------------------------ the loader

FileNames == {"./a.css", "./b.css", "./c.css"}

\* A composes path as the CSS-Modules parser hands it to fetch: quoted.
Quoted(q, f) == <<q, f, q>>

\* The lists of composes imports a file on disk can have.
ImportLists ==
  {<<>>} \cup {<<Quoted("dq", f)>> : f \in FileNames}
         \cup {<<Quoted("sq", "./b.css"), Quoted("dq", "./c.css")>>,
               <<Quoted("dq", "./c.css"), Quoted("sq", "./a.css")>>}

\* The deepest nesting of fetch calls the model follows.
MaxFetchDepth == 5

\* Line 168: composesPath.replace(/^["']|["']$/g, '').
StripQuotes(p) ==
  LET a == IF p # <<>> /\ IsQuote(Head(p)) THEN Tail(p) ELSE p
  IN IF a # <<>> /\ IsQuote(a[Len(a)]) THEN SubSeq(a, 1, Len(a) - 1) ELSE a

\* Line 169: the resolver, for the files of one directory.
Resolve(importPath) == importPath[1]

\* The export tokens core.load computes for a file.
ExportTokensOf(f) == <<"tokens", f>>

NotFetched == [returned |-> FALSE, tokens |-> <<>>]

\* The composes path the innermost core.load is about to fetch: the
\* outermost request, or the next import of the file being loaded.
NextImport ==
  IF stack = <<>> THEN request
  ELSE sources[stack[Len(stack)].file][stack[Len(stack)].next]

HasNextImport ==
  IF stack = <<>> THEN ~fetched.returned
  ELSE stack[Len(stack)].next <= Len(sources[stack[Len(stack)].file])

\* A fetch that detects cycles: an import of a file whose fetch is still in
\* progress is not fetched again.
FetchCallDetectingCycles ==
  /\ HasNextImport
  /\ Len(stack) < MaxFetchDepth
  /\ LET target == Resolve(StripQuotes(NextImport))
     IN IF \E i \in DOMAIN stack : stack[i].file = target
        THEN stack' = [stack EXCEPT ![Len(stack)].next = @ + 1]
        ELSE stack' = Append(stack, [file |-> target, next |-> 1])
  /\ UNCHANGED <<sources, request, fetched, transformVars>>

\* Lines 167-184: fetch strips the quotes, resolves, reads the file and hands
\* it to core.load with itself as the nested resolver.
FetchCall ==
  /\ HasNextImport
  /\ Len(stack) < MaxFetchDepth
  /\ stack' = Append(stack, [file |-> Resolve(StripQuotes(NextImport)), next |-> 1])
  /\ UNCHANGED <<sources, request, fetched, transformVars>>

\* Line 185: core.load has resolved every import of the file; fetch returns
\* the file's export tokens to the core.load that called it.
FetchReturn ==
  /\ stack # <<>>
  /\ ~HasNextImport
  /\ LET n == Len(stack)
     IN IF n = 1
        THEN /\ stack' = <<>>
             /\ fetched' = [returned |-> TRUE,
                            tokens |-> ExportTokensOf(stack[1].file)]
        ELSE /\ stack' = [SubSeq(stack, 1, n - 1) EXCEPT ![n - 1].next = @ + 1]
             /\ fetched' = fetched
  /\ UNCHANGED <<sources, request, transformVars>>

\* ------------------------------------------------------ specifications

InitialAssets ==
  {[filePath |-> AssetFilePath, ast |-> ast, tree |-> tree, astDirty |-> dirty,
    cssModules |-> Undefined, dependencies |-> deps, includedFiles |-> <<>>] :
     ast \in StoredASTs \cup {NoAST}, tree \in Trees, dirty \in BOOLEAN,
     deps \in InitialDependencies}

InitTransform ==
  /\ pc = "start"
  /\ config \in Configs
  /\ asset \in {a \in InitialAssets : a.ast = NoAST => ~a.astDirty}
  /\ pre = asset
  /\ reuse = [called |-> FALSE, ast |-> NoAST, result |-> FALSE]
  /\ parsed = NoAST
  /\ walked = FALSE
  /\ addDependencyCalls = <<>>
  /\ addIncludedFileCalls = <<>>
  /\ setASTCalls = <<>>
  /\ messages = <<>>
  /\ attempts = 0
  /\ result = <<>>
  /\ error = "none"

Init ==
  /\ InitTransform
  /\ sources = [f \in FileNames |-> <<>>]
  /\ request = <<>>
  /\ stack = <<>>
  /\ fetched = NotFetched

Next ==
  \/ CanReuseAST
  \/ Parse
  \/ TransformStart
  \/ Scan
  \/ ProcessOk
  \/ ProcessFail

Spec == Init /\ [][Next]_vars

\* The loader at work inside the plugin run of a transform with CSS Modules.
InitFetch ==
  /\ pc = "process"
  /\ config = "modules"
  /\ asset = [filePath |-> AssetFilePath, ast |-> PostcssAST,
              tree |-> <<DeclFromA>>, astDirty |-> FALSE,
              cssModules |-> Undefined,
              dependencies |-> ScanDependencies([tree |-> <<DeclFromA>>,
                                                 astDirty |-> FALSE]),
              includedFiles |-> <<>>]
  /\ pre = [asset EXCEPT !.dependencies = <<>>]
  /\ reuse = [called |-> FALSE, ast |-> NoAST, result |-> FALSE]
  /\ parsed = PostcssAST
  /\ walked = TRUE
  /\ addDependencyCalls = asset.dependencies
  /\ addIncludedFileCalls = <<>>
  /\ setASTCalls = <<>>
  /\ messages = <<>>
  /\ attempts = 0
  /\ result = <<>>
  /\ error = "none"
  /\ sources \in [FileNames -> ImportLists]
  /\ request \in {Quoted("dq", f) : f \in FileNames}
  /\ stack = <<>>
  /\ fetched = NotFetched

NextFetch == FetchCall \/ FetchReturn

\* Promise continuations that are ready to run are run: a fetch that can go
\* on does go on.
SpecFetch ==
  InitFetch /\ [][NextFetch]_vars /\ WF_vars(FetchCall) /\ WF_vars(FetchReturn)

\* -------------------------------------------------------------- claims

\* The composes scan of this transform call is over.
ScanDone == pc \in {"process", "failed"} \/ (pc = "done" /\ config # "none")

\* The declaration imports from another file as transform sees it: the
\* property is `composes` and the value has the shape `... from '<path>'`.
IsComposesFrom(d) == d.prop = "composes" /\ FromImportMatches(d.value)

\* The addDependency calls made for the k-th declaration: those located at it.
CallsAt(tree, k) ==
  {i \in DOMAIN addDependencyCalls :
     addDependencyCalls[i].loc.start = DeclSourceStart(tree, k)}

RECURSIVE SumStringTokens(_)
SumStringTokens(tree) ==
  IF tree = <<>> THEN 0
  ELSE (IF IsComposesFrom(Head(tree)) THEN StringTokens(Head(tree).value) ELSE 0)
         + SumStringTokens(Tail(tree))

OncePerStringToken ==
  /\ \A k \in DOMAIN pre.tree :
       IsComposesFrom(pre.tree[k]) =>
         /\ Cardinality(CallsAt(pre.tree, k)) = StringTokens(pre.tree[k].value)
         /\ \A i \in CallsAt(pre.tree, k) :
              addDependencyCalls[i].moduleSpecifier = FromImportPath(pre.tree[k].value)
  /\ Len(addDependencyCalls) = SumStringTokens(pre.tree)

\* C1, as claimed: once the scan is over, every `composes ... from '<path>'`
\* declaration has one addDependency call per string token of its value, each
\* with the extracted path as moduleSpecifier, and the calls number the sum of
\* the string tokens of these declarations.
C1_EveryComposesFromRegistered == ScanDone => OncePerStringToken

\* C1, amended: the same, for a scan whose declaration walk was performed (the
\* AST is dirty or the code matches COMPOSES_RE).
C1_RegisteredWhenWalked == (ScanDone /\ walked) => OncePerStringToken

\* C1: a walk over a declaration with two string tokens and another with one.
C1_Witness ==
  /\ ScanDone /\ walked
  /\ Len(addDependencyCalls) = 3
  /\ \E k \in DOMAIN pre.tree : Cardinality(CallsAt(pre.tree, k)) = 2

\* C2: every dependency the scan registers is located in the file of the
\* asset, starts where the declaration's value starts and ends on the same
\* line, the length of the import path further.
C2_LocationInAssetFile ==
  \A i \in DOMAIN addDependencyCalls :
    LET dep == addDependencyCalls[i]
    IN /\ dep.loc.filePath = pre.filePath
       /\ \E k \in DOMAIN pre.tree : dep.loc.start = DeclValueStart(pre.tree, k)
       /\ dep.loc.end.line = dep.loc.start.line
       /\ dep.loc.end.column = dep.loc.start.column + CharLen(dep.moduleSpecifier)

\* A `from` followed, after white space, by a quote: a from clause.
HasFromClause(v) == \E f \in DOMAIN v : v[f] = "from" /\ OpenQuoteAfter(v, f) # 0

NotImporting(d) == d.prop # "composes" \/ ~HasFromClause(d.value)

\* C3: no dependency is registered for a declaration that is a local
\* composition or whose property is not `composes`; a tree of such
\* declarations only yields no addDependency call.
C3_NoDependencyForLocalOrOtherProperty ==
  ScanDone =>
    /\ \A k \in DOMAIN pre.tree :
         NotImporting(pre.tree[k]) => CallsAt(pre.tree, k) = {}
    /\ (\A k \in DOMAIN pre.tree : NotImporting(pre.tree[k]))
         => addDependencyCalls = <<>>

\* C3: a walk over a local composition and over another property whose value
\* has the from shape.
C3_Witness ==
  /\ ScanDone /\ walked
  /\ \E k \in DOMAIN pre.tree : pre.tree[k] = DeclLocal
  /\ \E k \in DOMAIN pre.tree : pre.tree[k] = DeclOtherProp
  /\ addDependencyCalls = <<>>

HasCompanion ==
  /\ Len(result) = 2
  /\ result[1] = AssetOutput(asset)
  /\ result[2].type = "js"
  /\ result[2].filePath = asset.filePath \o <<".js">>

\* C4, as claimed: the companion is returned exactly when the export-token
\* map on the metadata is non-empty; with the map absent or empty the result
\* is the asset alone.
C4_CompanionIffNonEmptyMap ==
  pc = "done" =>
    IF asset.cssModules.defined /\ asset.cssModules.value # NoTokens
    THEN HasCompanion
    ELSE result = <<AssetOutput(asset)>>

\* C4, amended: the companion is returned exactly when the metadata holds an
\* export-token map, the empty map included; with no map the result is the
\* asset alone.
C4_CompanionIffMapPresent ==
  pc = "done" =>
    IF asset.cssModules.defined
    THEN HasCompanion
    ELSE result = <<AssetOutput(asset)>>

\* C4: a transform whose CSS-Modules run exported no class.
C4_Witness ==
  /\ pc = "done"
  /\ asset.cssModules = Defined(NoTokens)
  /\ HasCompanion

\* Object.assign(target, source): the keys of both, source's values winning.
ObjectAssign(target, source) ==
  [k \in DOMAIN target \cup DOMAIN source |->
     IF k \in DOMAIN source THEN source[k] ELSE target[k]]

\* What the composed files export, for evaluating the generated code.
ModuleExports(spec) ==
  IF spec = <<"./a.css">> THEN ("x" :> "_x_a")
  ELSE IF spec = <<"./b.css">> THEN ("x" :> "_x_b") @@ ("y" :> "_y_b")
  ELSE IF spec = <<"./c.css">> THEN ("y" :> "_y_c") @@ ("z" :> "_z_c")
  ELSE NoTokens

ArgValue(arg) ==
  IF arg.kind = "require" THEN ModuleExports(arg.spec) ELSE arg.value

\* The value of module.exports after the first n arguments are merged.
RECURSIVE Exported(_, _)
Exported(args, n) ==
  IF n = 0 THEN NoTokens
  ELSE ObjectAssign(Exported(args, n - 1), ArgValue(args[n]))

IsNotUrl(dep) == ~dep.isURL

\* C5: with no dependency that is not URL-style the companion is the direct
\* assignment of the token map; otherwise it merges one require per such
\* dependency, in dependency order, and the token map last, so that local
\* keys win over composed ones and a later composed file over an earlier one.
C5_CompanionContent ==
  (pc = "done" /\ Len(result) = 2) =>
    LET content == result[2].content
        local == asset.cssModules.value
        deps == SelectSeq(asset.dependencies, IsNotUrl)
        n == Len(deps)
        exports == Exported(content.args, Len(content.args))
    IN IF n = 0
       THEN content = [form |-> "assign", args |-> <<ObjectArg(local)>>]
       ELSE /\ content.form = "merge"
            /\ Len(content.args) = n + 2
            /\ content.args[1] = ObjectArg(NoTokens)
            /\ \A i \in 1..n :
                 content.args[i + 1] = RequireArg(deps[i].moduleSpecifier)
            /\ content.args[n + 2] = ObjectArg(local)
            /\ \A k \in DOMAIN local : exports[k] = local[k]
            /\ \A j \in 1..n :
                 \A k \in DOMAIN ModuleExports(deps[j].moduleSpecifier) :
                   (/\ k \notin DOMAIN local
                    /\ \A l \in (j + 1)..n :
                         k \notin DOMAIN ModuleExports(deps[l].moduleSpecifier))
                     => exports[k] = ModuleExports(deps[j].moduleSpecifier)[k]

\* C5: a merge of two composed files that export the key the local map has.
C5_Witness ==
  /\ pc = "done" /\ Len(result) = 2
  /\ "x" \in DOMAIN asset.cssModules.value
  /\ \E i, j \in DOMAIN asset.dependencies :
       /\ i < j
       /\ asset.dependencies[i].moduleSpecifier = <<"./b.css">>
       /\ asset.dependencies[j].moduleSpecifier = <<"./a.css">>

FailedWithoutOutput ==
  /\ error \in PluginErrors
  /\ result = <<>>
  /\ setASTCalls = <<>>
  /\ asset.ast = pre.ast
  /\ asset.includedFiles = pre.includedFiles
  /\ asset.cssModules = pre.cssModules
  /\ attempts = 1
  /\ ~ENABLED ProcessOk
  /\ ~ENABLED ProcessFail

\* C6, as claimed: when the plugin chain fails the error leaves transform, no
\* asset is returned, no AST is committed, the step is not retried and the
\* asset is as it was before the call.
C6_FailureLeavesAssetUntouched ==
  pc = "failed" => (FailedWithoutOutput /\ asset = pre)

\* C6, amended: the same, except that the dependencies the composes scan
\* registered before the plugin chain ran remain on the asset.
C6_FailureKeepsScanDependencies ==
  pc = "failed" =>
    /\ FailedWithoutOutput
    /\ asset = [pre EXCEPT !.dependencies = @ \o addDependencyCalls]

\* C6: a failed plugin chain after the scan registered a dependency.
C6_Witness == pc = "failed" /\ addDependencyCalls # <<>>

IsDependencyMessage(msg) == msg.type = "dependency"

\* C7: after a successful plugin run the addIncludedFile calls are the files
\* of the 'dependency' messages, in message order; the other messages cause
\* no call, no dependency and no error.
C7_IncludedFilesAreDependencyMessages ==
  (pc = "done" /\ attempts = 1) =>
    LET deps == SelectSeq(messages, IsDependencyMessage)
    IN /\ Len(addIncludedFileCalls) = Len(deps)
       /\ \A i \in DOMAIN deps : addIncludedFileCalls[i] = deps[i].file
       /\ asset.includedFiles = pre.includedFiles \o addIncludedFileCalls
       /\ asset.dependencies = pre.dependencies \o addDependencyCalls
       /\ error = "none"

\* C7: a run whose messages are a dependency, a warning and a dependency.
C7_Witness ==
  /\ pc = "done"
  /\ Len(messages) = 3
  /\ messages[2].type = "warning"
  /\ Len(addIncludedFileCalls) = 2

\* C8: canReuseAST accepts an AST only if it is tagged 'postcss' with major
\* version 7, accepts every released postcss 7 AST, and so accepts what parse
\* returns and what transform commits.
C8_CanReuseSameTagAndMajor ==
  /\ reuse.called =>
       /\ reuse.result => (reuse.ast.type = "postcss" /\ reuse.ast.version.major = 7)
       /\ (reuse.ast.type = "postcss" /\ reuse.ast.version.major = 7
             /\ ~reuse.ast.version.pre) => reuse.result
  /\ parsed # NoAST => canReuseAST(parsed)
  /\ \A i \in DOMAIN setASTCalls : canReuseAST(setASTCalls[i])
  /\ \A ast \in StoredASTs :
       (ast.type # "postcss" \/ ast.version.major # 7) => ~canReuseAST(ast)

\* C8: an AST of a later postcss 7 release was reused and transform committed
\* its own.
C8_Witness ==
  /\ pc = "done"
  /\ reuse.called /\ reuse.result
  /\ reuse.ast.version = Version(7, 1, 0, FALSE)
  /\ setASTCalls # <<>>

\* C10: the walk is skipped exactly when the AST is not dirty and the code
\* does not match COMPOSES_RE; a skipped walk registers nothing; and the scan
\* is over before the plugin chain runs.
C10_WalkSkippedIffCleanAndNoMatch ==
  /\ ScanDone =>
       /\ ~walked <=> (~pre.astDirty /\ ~ComposesReTest(Render(pre.tree)))
       /\ pre.astDirty => walked
       /\ ~walked => addDependencyCalls = <<>>
       /\ asset.dependencies = pre.dependencies \o addDependencyCalls
  /\ ~ScanDone => (attempts = 0 /\ addDependencyCalls = <<>> /\ ~walked)
  /\ pc = "process" => attempts = 0

\* C10: a dirty AST whose code would not match is walked and registers.
C10_Witness ==
  /\ pc = "process"
  /\ pre.astDirty /\ walked
  /\ ~ComposesReTest(Render(pre.tree))
  /\ addDependencyCalls # <<>>

\* The file the outermost fetch call is for.
RequestedFile == Resolve(StripQuotes(request))

\* The files a file composes from.
Imports(f) == {Resolve(StripQuotes(sources[f][i])) : i \in DOMAIN sources[f]}

\* The files reached from the files S by n or fewer imports.
RECURSIVE ReachedWithin(_, _)
ReachedWithin(S, n) ==
  IF n = 0 THEN S
  ELSE ReachedWithin(S \cup UNION {Imports(f) : f \in S}, n - 1)

Reachable(f) == ReachedWithin({f}, Cardinality(FileNames))

\* Some file reachable from f reaches itself by one import or more.
CyclicFrom(f) ==
  \E g \in Reachable(f) : g \in ReachedWithin(Imports(g), Cardinality(FileNames))

\* C9: fetch recurses through the composes chain with no cycle detection:
\* it returns the export tokens of the requested file if the import graph
\* reachable from that file is acyclic, and never returns if it is cyclic.
C9_FetchReturnsIffAcyclic ==
  /\ ~CyclicFrom(RequestedFile)
       => <>(fetched = [returned |-> TRUE, tokens |-> ExportTokensOf(RequestedFile)])
  /\ CyclicFrom(RequestedFile) => [](~fetched.returned)

\* C9: a fetch of a file is in progress inside a fetch of the same file.
C9_Witness ==
  \E i, j \in DOMAIN stack : i < j /\ stack[i].file = stack[j].file

====
